---- MODULE Spec2Model ----
(***************************************************************************)
(* A model of txfs: a transactional (MVCC) overlay over a file cache.      *)
(*                                                                         *)
(*   File  (src/src/file.rs): a scalar transactional lock `last_modified`  *)
(*         naming the version file to read, a directory of version files   *)
(*         (one per writing transaction) and the canonical copy in the     *)
(*         parent directory.                                               *)
(*   Dir   (src/src/dir.rs): a transactional map of entries, the canonical *)
(*         cache directory and its hidden `.txfs` directory of per-file    *)
(*         version directories.                                            *)
(*                                                                         *)
(* Encoding.  Transaction ids are 1..MaxTxn.  An Option<TxnId> is 0 for    *)
(* None.  A file's contents are a token: the id of the transaction that    *)
(* last mutated them through a write guard, or 0 for the contents the file *)
(* was created with; -1 stands for "no such file".                         *)
(***************************************************************************)
EXTENDS Integers, FiniteSets, Sequences, TLC

\* the largest transaction id
MaxTxn == 3
\* the number of read guards callers hold at once
MaxReaders == 2

Txns == 1..MaxTxn

\* the number of callers that create entries concurrently
MaxCallers == 2

Callers == 1..MaxCallers

\* the steps the callers of the directory specification take
MaxSteps == 5

\* ------------------------------------------------------------------------
\* State of the single-file specification (SpecFile)
VARIABLES
  file,      \* the File: its last_modified lock and its version files
  rguards,   \* the FileVersionRead guards callers hold
  wguards,   \* per txn, the number of FileVersionWrite guards callers hold
  wver,      \* per txn, the version file its FileVersionWrite is a guard on
  canon,     \* contents of parent/<name> in the cache (-1: absent)
  disk,      \* contents of parent/<name> on the host filesystem (-1: absent)
  last,      \* the last call and what it returned
  live,      \* history: the transactions that touched the file and have not ended
  wrote,     \* history: the creator and the transactions whose write succeeded,
             \*          less those rolled back
  committed, \* history: the transactions File::commit was called at
  loaded     \* history: the File came from File::load, not File::create

\* State of the directory specification (SpecDir)
VARIABLES
  root,      \* the root Dir: entries, File objects, canonical cache directory
  sub,       \* the Dir at root/d and its cache directory
  fs,        \* the host filesystem under the root: [root, sub]
  calls,     \* per caller, its create_file / create_dir call in progress
  panicked,  \* a call has panicked
  steps,     \* the number of steps the callers have taken
  held       \* the FileVersionWrite guards callers hold on files of the root

\* State of the lock specification (SpecLocks)
VARIABLES
  lk         \* the tasks, the locks and guards they hold and the pending txns

\* what the directory specification leaves alone
fvars == <<file, rguards, wguards, wver, canon, disk, last, live, wrote, committed,
           loaded, lk>>

dvars == <<root, sub, fs, calls, panicked, steps, held>>

vars == <<file, rguards, wguards, wver, canon, disk, last, live, wrote, committed,
          loaded,
          root, sub, fs, calls, panicked, steps, held, lk>>

\* what the lock specification leaves alone
ovars == <<file, rguards, wguards, wver, canon, disk, last, live, wrote, committed,
           loaded, root, sub, fs, calls, panicked, steps, held>>

\* ------------------------------------------------------------------------
\* txn_lock::scalar::TxnLock<TxnId, TxnId>, the lock behind last_modified.
\*  canon: the finalized value; comm[t]: -1 not committed, 0 committed
\*  without a change, else the value committed at t; pend[t]: 0 or the value
\*  pending at t; fin: 0 or the last finalized txn; res[t]: the semaphore's
\*  reservation of t, kept until t is committed, rolled back or finalized.

\* TxnLock::new(value): File::create and File::load call it with the txn id
NewLock(c) ==
  [canon |-> c,
   comm  |-> [t \in Txns |-> -1],
   pend  |-> [t \in Txns |-> 0],
   fin   |-> 0,
   res   |-> [t \in Txns |-> "none"]]

\* the value committed at or before t, else the finalized value
ReadCanon(f, t) ==
  LET S == {c \in Txns : c <= t /\ f.comm[c] > 0}
  IN  IF S = {} THEN f.canon
      ELSE f.comm[CHOOSE c \in S : \A d \in S : d <= c]

\* the value of the lock as seen at t
LockValue(f, t) == IF f.pend[t] # 0 THEN f.pend[t] ELSE ReadCanon(f, t)

\* a write reservation of an earlier transaction makes t wait
PastWrite(f, t) == \E p \in Txns : p < t /\ f.res[p] = "write"

\* a reservation of a later transaction refuses a write at t (Error::Conflict)
FutureReservation(f, t) == \E p \in Txns : p > t /\ f.res[p] # "none"

\* State::commit: the pending value of t, if any, becomes its committed value
LockCommit(f, t) ==
  IF f.comm[t] # -1 \/ f.fin >= t THEN f
  ELSE [f EXCEPT !.comm[t] = f.pend[t], !.pend[t] = 0, !.res[t] = "none"]

\* rollback: the pending value of t is dropped
LockRollback(f, t) == [f EXCEPT !.pend[t] = 0, !.res[t] = "none"]

\* State::finalize: the commits at or before t collapse into canon
LockFinalize(f, t) ==
  [f EXCEPT !.canon = ReadCanon(f, t),
            !.comm  = [c \in Txns |-> IF c <= t THEN -1 ELSE f.comm[c]],
            !.fin   = t,
            !.res   = [c \in Txns |-> IF c <= t THEN "none" ELSE f.res[c]]]

\* ------------------------------------------------------------------------
\* File (src/src/file.rs).  A File is [lm: the last_modified lock,
\* vers: the files of its versions directory, by name].

\* File::create: versions/<txn> holds the new contents, last_modified is txn
FileCreate(c, contents) ==
  [lm |-> NewLock(c), vers |-> [v \in Txns |-> IF v = c THEN contents ELSE -1]]

\* File::load: the versions directory is truncated and versions/<txn> is a
\* copy of the canonical file
FileLoad(c, canonical) ==
  [lm |-> NewLock(c), vers |-> [v \in Txns |-> IF v = c THEN canonical ELSE -1]]

\* File::read, `versions.read_file_owned(&*last_modified)`: the version read
ReadVersion(f, t) == LockValue(f.lm, t)

\* File::read: what the call returns where it does not wait
FileReadResult(f, t) ==
  IF f.lm.fin > t THEN "Conflict"
  ELSE IF f.vers[ReadVersion(f, t)] = -1 THEN "NotFound"
  ELSE "ok"

\* File::read: the File after the call (the read reserves t in the lock
\* until t ends)
FileReadState(f, t) ==
  IF f.lm.fin > t \/ f.lm.comm[t] # -1 THEN f
  ELSE [f EXCEPT !.lm.res[t] = IF @ = "write" THEN @ ELSE "read"]

\* a comparison that sends every other version to the copy branch
NeedsCopyAny(m, t) == m # t

\* File::write, `if last_modified < txn_id`: copy on write
NeedsCopy(m, t) == m < t

\* File::write, `else if last_modified == txn_id`: the version exists already
SameVersion(m, t) == m = t

\* TxnLock::write refuses (Outdated, Committed, Conflict) before any change
LockWriteRefused(f, t) ==
  f.lm.fin > t \/ f.lm.comm[t] # -1 \/ FutureReservation(f.lm, t)

\* a write guard on the version that was copied, not on the copy
WriteGuardInPlace(m, t) == m

\* File::write: the version file the returned guard is on (`create_file(txn_id
\* ...)` in the first branch, `get_file(&*last_modified)` = txn_id in the second)
WriteGuardVersion(m, t) == t

\* File::write: what the call returns where it does not wait
FileWriteResult(f, t) ==
  IF LockWriteRefused(f, t) THEN "Conflict"
  ELSE LET m == LockValue(f.lm, t) IN
       IF NeedsCopy(m, t)
         THEN IF f.vers[m] = -1 THEN "NotFound"
              ELSE IF f.vers[t] # -1 THEN "IO" ELSE "ok"
       ELSE IF SameVersion(m, t)
         THEN IF f.vers[t] = -1 THEN "panic" ELSE "ok"
       ELSE "Conflict"

\* File::write without `*last_modified = txn_id`
FileWriteNoAdvance(f, t) ==
  IF LockWriteRefused(f, t) THEN f
  ELSE LET m  == LockValue(f.lm, t)
           f1 == [f EXCEPT !.lm.pend[t] = m, !.lm.res[t] = "write"]
       IN  IF NeedsCopy(m, t) /\ f.vers[m] # -1 /\ f.vers[t] = -1
             THEN [f1 EXCEPT !.vers[t] = f.vers[m]]
           ELSE f1

\* File::write that copies the committed version again on every call
FileWriteCopiesAgain(f, t) ==
  IF LockWriteRefused(f, t) THEN f
  ELSE LET m == LockValue(f.lm, t)
           c == ReadCanon(f.lm, t)
       IN  [f EXCEPT !.lm.pend[t] = IF m <= t THEN t ELSE m,
                     !.lm.res[t] = "write",
                     !.vers[t] = IF m <= t /\ f.vers[c] # -1 THEN f.vers[c] ELSE @]

\* File::write: the File after the call
FileWriteState(f, t) ==
  IF LockWriteRefused(f, t) THEN f
  ELSE LET m  == LockValue(f.lm, t)
           f1 == [f EXCEPT !.lm.pend[t] = m, !.lm.res[t] = "write"]
       IN  IF NeedsCopy(m, t) /\ f.vers[m] # -1
             THEN IF f.vers[t] # -1
                    THEN [f1 EXCEPT !.lm.pend[t] = t]
                    ELSE [f1 EXCEPT !.lm.pend[t] = t, !.vers[t] = f.vers[m]]
           ELSE f1

\* File::commit, `if &*last_modified == &txn_id`: t modified the file
CommitCopies(f, t) == LockValue(f.lm, t) = t

\* File::commit: the File after the call
FileCommitState(f, t) == [f EXCEPT !.lm = LockCommit(f.lm, t)]

\* File::commit: the canonical contents after the call
FileCommitCanon(f, t, c) == IF CommitCopies(f, t) THEN f.vers[t] ELSE c

\* File::rollback, `if &*last_modified == &txn_id`: delete versions/<txn>
RollbackDeletes(f, t) == LockValue(f.lm, t) = t

\* File::rollback: the File after the call
FileRollbackState(f, t) ==
  [f EXCEPT !.lm = LockRollback(f.lm, t),
            !.vers[t] = IF RollbackDeletes(f, t) THEN -1 ELSE @]

\* File::finalize, `filter(|version_id| *last_modified >= *version_id)`
FinalizeDeletes(m, v) == m >= v

\* File::finalize: the File after the call
FileFinalizeState(f, t) ==
  IF f.lm.fin > t THEN f
  ELSE LET lm1 == LockFinalize(f.lm, t) IN
       [lm |-> lm1,
        vers |-> [v \in Txns |->
                    IF FinalizeDeletes(lm1.canon, v) THEN -1 ELSE f.vers[v]]]

\* ------------------------------------------------------------------------
\* The single-file specification: one File, created or loaded at some txn,
\* and callers that read, write, commit, roll back and finalize it.

NoCall == [op |-> "none", txn |-> 0, res |-> "ok", val |-> -1]

InitFile ==
  \E c \in Txns, ld \in BOOLEAN :
    /\ file = IF ld THEN FileLoad(c, 0) ELSE FileCreate(c, 0)
    /\ canon = IF ld THEN 0 ELSE -1
    /\ disk = IF ld THEN 0 ELSE -1
    /\ loaded = ld
    /\ rguards = {}
    /\ wguards = [t \in Txns |-> 0]
    /\ wver = [t \in Txns |-> 0]
    /\ last = NoCall
    /\ live = {c}
    /\ wrote = {c}
    /\ committed = {}
    /\ root = 0 /\ sub = 0 /\ fs = 0 /\ calls = 0 /\ panicked = 0 /\ steps = 0 /\ held = 0
    /\ lk = 0

\* a FileVersionRead that does not keep the lock's read guard
ReadPermitDropped(t) == FALSE

\* FileVersionRead holds `_modified`, the lock's read guard at its txn
ReadPermitHeld(t) == \E g \in rguards : g.txn = t

\* FileVersionWrite holds `_modified`, the lock's write guard at its txn
WritePermitHeld(t) == wguards[t] > 0

\* FileVersionRead holds `version`, a read lock on its version file
VersionReadLocked(v) == \E g \in rguards : g.ver = v

\* FileVersionWrite holds `version`, a write lock on its version file
VersionWriteLocked(v) == \E t \in Txns : wguards[t] > 0 /\ wver[t] = v

\* File::read waits: for an earlier pending writer, for the write guard at t,
\* or for the write guard on the version file it reads
ReadWaits(t) ==
  /\ file.lm.fin <= t
  /\ \/ PastWrite(file.lm, t)
     \/ WritePermitHeld(t)
     \/ VersionWriteLocked(ReadVersion(file, t))

\* File::read
Read(t) ==
  /\ ~ReadWaits(t)
  /\ LET r == FileReadResult(file, t)
         m == ReadVersion(file, t)
         g == [txn |-> t, ver |-> m, val |-> file.vers[m]]
     IN  /\ r = "ok" => g \notin rguards /\ Cardinality(rguards) < MaxReaders
         /\ file' = FileReadState(file, t)
         /\ rguards' = IF r = "ok" THEN rguards \cup {g} ELSE rguards
         /\ last' = [op |-> "read", txn |-> t, res |-> r,
                     val |-> IF r = "ok" THEN file.vers[m] ELSE -1]
         /\ live' = IF file.lm.fin > t \/ file.lm.comm[t] # -1
                      THEN live ELSE live \cup {t}
  /\ UNCHANGED <<wguards, wver, canon, disk, wrote, committed>>
  /\ UNCHANGED <<loaded, lk, dvars>>

\* File::write waits: for an earlier pending writer, for the guards held at t,
\* or for the guards on the version file it returns a guard on
WriteWaits(t) ==
  /\ ~LockWriteRefused(file, t)
  /\ \/ PastWrite(file.lm, t)
     \/ WritePermitHeld(t)
     \/ ReadPermitHeld(t)
     \/ /\ FileWriteResult(file, t) = "ok"
        /\ LET v == WriteGuardVersion(LockValue(file.lm, t), t)
           IN  VersionReadLocked(v) \/ VersionWriteLocked(v)

\* File::write
Write(t) ==
  /\ ~WriteWaits(t)
  /\ LET r == FileWriteResult(file, t) IN
       /\ file' = FileWriteState(file, t)
       /\ wguards' = IF r = "ok" THEN [wguards EXCEPT ![t] = @ + 1] ELSE wguards
       /\ wver' = IF r = "ok"
                    THEN [wver EXCEPT ![t] = WriteGuardVersion(LockValue(file.lm, t), t)]
                    ELSE wver
       /\ last' = [op |-> "write", txn |-> t, res |-> r, val |-> -1]
       /\ live' = IF LockWriteRefused(file, t) THEN live ELSE live \cup {t}
       /\ wrote' = IF r = "ok" THEN wrote \cup {t} ELSE wrote
  /\ UNCHANGED <<rguards, canon, disk, committed>>
  /\ UNCHANGED <<loaded, lk, dvars>>

\* DerefMut of a FileVersionWrite: the holder changes the contents
Mutate(t) ==
  /\ wguards[t] > 0
  /\ file.vers[wver[t]] # t
  /\ file' = [file EXCEPT !.vers[wver[t]] = t]
  /\ last' = [op |-> "mutate", txn |-> t, res |-> "ok", val |-> t]
  /\ UNCHANGED <<rguards, wguards, wver, canon, disk, live, wrote, committed>>
  /\ UNCHANGED <<loaded, lk, dvars>>

\* a FileVersionRead is dropped
DropRead(g) ==
  /\ g \in rguards
  /\ rguards' = rguards \ {g}
  /\ last' = [op |-> "drop", txn |-> g.txn, res |-> "ok", val |-> -1]
  /\ UNCHANGED <<file, wguards, wver, canon, disk, live, wrote, committed>>
  /\ UNCHANGED <<loaded, lk, dvars>>

\* a FileVersionWrite is dropped
DropWrite(t) ==
  /\ wguards[t] > 0
  /\ wguards' = [wguards EXCEPT ![t] = @ - 1]
  /\ wver' = IF wguards[t] = 1 THEN [wver EXCEPT ![t] = 0] ELSE wver
  /\ last' = [op |-> "drop", txn |-> t, res |-> "ok", val |-> -1]
  /\ UNCHANGED <<file, rguards, canon, disk, live, wrote, committed>>
  /\ UNCHANGED <<loaded, lk, dvars>>

\* File::commit; the first call at t waits for the writers before t and for
\* the write guard at t, a later call at t finds the lock committed
Commit(t) ==
  /\ file.lm.fin < t
  /\ file.lm.comm[t] = -1 => ~PastWrite(file.lm, t) /\ ~WritePermitHeld(t)
  /\ file' = FileCommitState(file, t)
  /\ IF CommitCopies(file, t) /\ file.vers[t] = -1
       THEN /\ last' = [op |-> "commit", txn |-> t, res |-> "panic", val |-> -1]
            /\ UNCHANGED <<canon, disk>>
       ELSE /\ canon' = FileCommitCanon(file, t, canon)
            /\ disk' = FileCommitCanon(file, t, disk)
            /\ last' = [op |-> "commit", txn |-> t, res |-> "ok", val |-> -1]
  /\ live' = live \ {t}
  /\ committed' = committed \cup {t}
  /\ UNCHANGED <<rguards, wguards, wver, wrote>>
  /\ UNCHANGED <<loaded, lk, dvars>>

\* File::rollback of a transaction that has not been committed
Rollback(t) ==
  /\ file.lm.comm[t] = -1 /\ file.lm.fin < t
  /\ ~PastWrite(file.lm, t) /\ ~WritePermitHeld(t)
  /\ RollbackDeletes(file, t) => ~VersionReadLocked(t) /\ ~VersionWriteLocked(t)
  /\ file' = FileRollbackState(file, t)
  /\ last' = [op |-> "rollback", txn |-> t, res |-> "ok", val |-> -1]
  /\ live' = live \ {t}
  /\ wrote' = wrote \ {t}
  /\ UNCHANGED <<rguards, wguards, wver, canon, disk, committed>>
  /\ UNCHANGED <<loaded, lk, dvars>>

\* File::finalize, called when no transaction at or before t is live and no
\* guard is held on a version it deletes
Finalize(t) ==
  /\ file.lm.fin <= t
  /\ \A p \in Txns : p <= t => p \notin live /\ wguards[p] = 0
  /\ \A g \in rguards : g.txn > t /\ FileFinalizeState(file, t).vers[g.ver] # -1
  /\ file' = FileFinalizeState(file, t)
  /\ last' = [op |-> "finalize", txn |-> t, res |-> "ok", val |-> -1]
  /\ UNCHANGED <<rguards, wguards, wver, canon, disk, live, wrote, committed>>
  /\ UNCHANGED <<loaded, lk, dvars>>

NextFile ==
  \/ \E t \in Txns : Read(t)
  \/ \E t \in Txns : Write(t)
  \/ \E t \in Txns : Mutate(t)
  \/ \E g \in rguards : DropRead(g)
  \/ \E t \in Txns : DropWrite(t)
  \/ \E t \in Txns : Commit(t)
  \/ \E t \in Txns : Rollback(t)
  \/ \E t \in Txns : Finalize(t)

SpecFile == InitFile /\ [][NextFile]_vars

\* ------------------------------------------------------------------------
\* Properties of the single-file specification

\* a has written and mutated versions/<a> and has neither been committed nor
\* rolled back
PendingModified(a) ==
  a \notin committed /\ file.lm.pend[a] = a /\ file.vers[a] = a

\* C1 (isolation): a read guard at b never shows contents mutated by an
\* earlier transaction a unless File::commit(a) has been called, and while a
\* holds an uncommitted modification a File::read at any later b waits or fails.
C1_Isolation ==
  /\ \A g \in rguards : (g.val \in Txns /\ g.val < g.txn) => g.val \in committed
  /\ \A a \in Txns, b \in Txns :
       (a < b /\ PendingModified(a))
         => ReadWaits(b) \/ FileReadResult(file, b) # "ok"

\* a has modified the file, dropped its guard and is not committed, and a
\* read at a later b is waiting
C1_Witness ==
  \E a \in Txns, b \in Txns :
    a < b /\ PendingModified(a) /\ wguards[a] = 0 /\ ReadWaits(b)

\* C2 (at most one writer): at every txn at most one write guard is held, and
\* while it is held no read guard at that txn is.
C2_OneWriter ==
  \A t \in Txns :
    /\ wguards[t] <= 1
    /\ wguards[t] > 0 => ~\E g \in rguards : g.txn = t

\* a write guard is held at t while another write and a read at t wait for it
C2_Witness ==
  \E t \in Txns : wguards[t] = 1 /\ WriteWaits(t) /\ ReadWaits(t)

\* the committed writers at or before t
CommittedWriters(t) == {w \in wrote \cap committed : w <= t}

\* the largest of them
LastCommittedWriter(t) ==
  CHOOSE w \in CommittedWriters(t) : \A x \in CommittedWriters(t) : x <= w

\* t has written the file and has not been committed
OwnPendingWrite(t) == t \in wrote /\ t \notin committed

C4_SnapshotStability ==
  /\ \A t2 \in Txns :
       (WriteWaits(t2) /\ \E g \in rguards : g.txn < t2)
         => \/ PastWrite(file.lm, t2)
            \/ WritePermitHeld(t2)
            \/ ReadPermitHeld(t2)
            \/ LET v == WriteGuardVersion(LockValue(file.lm, t2), t2)
               IN  \/ VersionWriteLocked(v)
                   \/ \E g \in rguards : g.txn >= t2 /\ g.ver = v
  /\ \A g \in rguards : file.vers[g.ver] = g.val
  /\ \A g1 \in rguards, g2 \in rguards :
       (g1.txn = g2.txn /\ g1.txn \notin committed) => g1.val = g2.val
  /\ (last.op = "read" /\ last.res = "ok" /\ PendingModified(last.txn))
       => last.val = last.txn

C10_ReadsSurviveFinalize ==
  (/\ last.op = "read" /\ last.txn > file.lm.fin /\ file.lm.fin > 0
   /\ canon # -1 /\ wrote \subseteq committed
   /\ \A w \in wrote : w <= file.lm.fin)
    => last.res = "ok" /\ last.val = canon

\* ------------------------------------------------------------------------
\* txn_lock::map::TxnMapLock<TxnId, Id, DirEntry>, the lock behind Dir.entries.
\* An entry is "file" or "dir"; "none" is no entry.
\*  canon[n]: the finalized entry of n; delta[t][n]: "same" or what t made of
\*  n ("none": removed); done[t]: t is committed; fin: 0 or the last finalized
\*  txn; res[t][n]: the semaphore's reservation of key n at t, kept until t is
\*  committed or rolled back.

Names == {"d", "h"}

SubNames == {"g"}

AllKeys(N, v) == [n \in N |-> v]

\* a map lock nothing was done to
IdleMap(N) ==
  [canon |-> AllKeys(N, "none"),
   delta |-> [c \in Txns |-> AllKeys(N, "same")],
   done  |-> [c \in Txns |-> FALSE],
   fin   |-> 0,
   res   |-> [c \in Txns |-> AllKeys(N, "none")]]

\* TxnMapLock::with_contents(txn_id, contents): the contents are pending at
\* txn_id, which holds a write reservation of the whole map
NewMap(t, contents) ==
  LET N == DOMAIN contents IN
  [canon |-> AllKeys(N, "none"),
   delta |-> [c \in Txns |->
                IF c = t
                  THEN [n \in N |-> IF contents[n] = "none" THEN "same"
                                    ELSE contents[n]]
                  ELSE AllKeys(N, "same")],
   done  |-> [c \in Txns |-> FALSE],
   fin   |-> 0,
   res   |-> [c \in Txns |-> IF c = t THEN AllKeys(N, "write")
                             ELSE AllKeys(N, "none")]]

\* the entry of n as seen at t: what t made of it, else what the last
\* transaction committed before t made of it, else the finalized entry
MapValue(m, t, n) ==
  LET S == {c \in Txns : /\ c <= t
                         /\ c = t \/ m.done[c]
                         /\ m.delta[c][n] # "same"}
  IN  IF S = {} THEN m.canon[n]
      ELSE m.delta[CHOOSE c \in S : \A e \in S : e <= c][n]

\* the snapshot at t
MapContents(m, t) == [n \in DOMAIN m.canon |-> MapValue(m, t, n)]

\* a write reservation of key n by an earlier transaction makes t wait
MapPastWrite(m, t, n) == \E p \in Txns : p < t /\ m.res[p][n] = "write"

\* a reservation of key n by a later transaction refuses a write at t
MapFutureReservation(m, t, n) == \E p \in Txns : p > t /\ m.res[p][n] # "none"

\* a read of key n at t is refused (Error::Outdated)
MapReadRefused(m, t) == m.fin > t

\* a write of key n at t is refused (Outdated, Committed, Conflict)
MapWriteRefused(m, t, n) ==
  m.fin > t \/ m.done[t] \/ MapFutureReservation(m, t, n)

\* get / contains_key: the read reserves the key at t
MapRead(m, t, n) ==
  IF m.done[t] THEN m
  ELSE [m EXCEPT !.res[t][n] = IF @ = "write" THEN @ ELSE "read"]

\* entry(txn, key) on a vacant key: the write permit reserves the key
MapReserve(m, t, n) == [m EXCEPT !.res[t][n] = "write"]

\* VacantEntry::insert
MapInsert(m, t, n, e) == [m EXCEPT !.delta[t][n] = e, !.res[t][n] = "write"]

\* remove(txn, key)
MapRemove(m, t, n) ==
  IF MapValue(m, t, n) = "none" THEN MapReserve(m, t, n)
  ELSE [m EXCEPT !.delta[t][n] = "none", !.res[t][n] = "write"]

\* clear(txn)
MapClear(m, t) ==
  [m EXCEPT !.delta[t] = [n \in DOMAIN m.canon |->
                            IF MapValue(m, t, n) = "none" THEN @[n]
                            ELSE "none"],
            !.res[t] = AllKeys(DOMAIN m.canon, "write")]

\* a write of any key at t is refused
MapClearRefused(m, t) == \E n \in DOMAIN m.canon : MapWriteRefused(m, t, n)

\* a transaction before t holds a write reservation
MapAnyPastWrite(m, t) == \E n \in DOMAIN m.canon : MapPastWrite(m, t, n)

\* read_and_commit(txn)
MapCommit(m, t) ==
  IF m.done[t] \/ m.fin >= t THEN m
  ELSE [m EXCEPT !.done[t] = TRUE, !.res[t] = AllKeys(DOMAIN m.canon, "none")]

\* read_and_rollback(txn)
MapRollback(m, t) ==
  IF m.done[t] \/ m.fin >= t THEN m
  ELSE [m EXCEPT !.delta[t] = AllKeys(DOMAIN m.canon, "same"),
                 !.res[t] = AllKeys(DOMAIN m.canon, "none")]

\* read_and_finalize(txn): the commits at or before t collapse into canon
MapFinalize(m, t) ==
  LET N == DOMAIN m.canon
      upto == {c \in Txns : c <= t /\ m.done[c]}
  IN  [canon |-> [n \in N |->
                    LET S == {c \in upto : m.delta[c][n] # "same"}
                    IN  IF S = {} THEN m.canon[n]
                        ELSE m.delta[CHOOSE c \in S : \A e \in S : e <= c][n]],
       delta |-> [c \in Txns |-> IF c <= t THEN AllKeys(N, "same") ELSE m.delta[c]],
       done  |-> [c \in Txns |-> IF c <= t THEN FALSE ELSE m.done[c]],
       fin   |-> t,
       res   |-> [c \in Txns |-> IF c <= t THEN AllKeys(N, "none") ELSE m.res[c]]]

\* ------------------------------------------------------------------------
\* Dir (src/src/dir.rs).  A Dir is [ent: the entries lock, files: per name the
\* File object and the version files of .txfs/<name>, ckind / ccont: kind and
\* contents of the entries of the canonical cache directory, vdir: whether
\* .txfs/<name> exists in the cache].  The model keeps one File object per
\* name, one sub-directory (root/d) and no deeper level.  What the cache holds
\* reaches the host filesystem when the cache syncs it.

NoVersions == [v \in Txns |-> -1]

\* no File object
NoFile == [lm |-> NewLock(0), vers |-> NoVersions]

\* a directory as the cache or the host filesystem holds it
EmptyImage(N) ==
  [kind |-> AllKeys(N, "none"), cont |-> AllKeys(N, -1), txfs |-> FALSE,
   vdir |-> AllKeys(N, FALSE), vers |-> AllKeys(N, NoVersions)]

\* DirLock::sync writes the cache directory, .txfs included, and removes what
\* was deleted from it
CacheImage(D) ==
  [kind |-> D.ckind, cont |-> D.ccont, txfs |-> TRUE, vdir |-> D.vdir,
   vers |-> [n \in DOMAIN D.ckind |-> D.files[n].vers]]

\* no Dir object and no cache directory
NoDir(N) ==
  [ent |-> IdleMap(N), files |-> AllKeys(N, NoFile),
   ckind |-> AllKeys(N, "none"), ccont |-> AllKeys(N, -1),
   vdir |-> AllKeys(N, FALSE)]

\* a File object exists for n
HasFile(D, n) == D.files[n].lm.canon # 0

\* Dir::load, `versions.truncate();`: the future is dropped, not awaited, so
\* the version directories stay
TruncateNotAwaited(vdir) == vdir

\* Dir::load, `versions.create_dir(name)`: fails when the version directory
\* of a canonical file is still there
LoadFails(img) ==
  \E n \in DOMAIN img.kind : img.kind[n] = "file" /\ TruncateNotAwaited(img.vdir)[n]

\* Dir::load: every canonical file is loaded by File::load, every canonical
\* sub-directory (which holds no file) by Dir::load, and the contents are
\* installed at txn_id
DirLoad(t, img) ==
  LET N == DOMAIN img.kind IN
  [ent   |-> NewMap(t, img.kind),
   files |-> [n \in N |-> IF img.kind[n] = "file" THEN FileLoad(t, img.cont[n])
                          ELSE [lm |-> NewLock(0), vers |-> img.vers[n]]],
   ckind |-> img.kind,
   ccont |-> img.cont,
   vdir  |-> [n \in N |-> TruncateNotAwaited(img.vdir)[n] \/ img.kind[n] = "file"]]

\* File::create, `versions.create_file(txn_id ...)?`: fails when versions/<txn>
\* exists
CreateFileFails(D, t, n) == D.files[n].vers[t] # -1

\* Dir::create_file after the reservation: .txfs/<name> is got or created,
\* File::create writes versions/<txn>, the entry is inserted
CreateFileState(D, t, n) ==
  IF CreateFileFails(D, t, n) THEN [D EXCEPT !.vdir[n] = TRUE]
  ELSE [D EXCEPT !.vdir[n] = TRUE,
                 !.files[n] = [FileCreate(t, 0) EXCEPT
                                 !.vers = [D.files[n].vers EXCEPT ![t] = 0]],
                 !.ent = MapInsert(D.ent, t, n, "file")]

\* Dir::commit, recursive: the files File::commit is called on
CommittedFiles(D, t) == {n \in DOMAIN D.ckind : MapValue(D.ent, t, n) = "file"}

\* File::commit panics: `expect("version")`, `expect("copy canonical
\* version")` onto a directory, `expect("sync canonical version ...")` onto a
\* directory of the host filesystem
FileCommitPanics(D, F, t, n) ==
  /\ CommitCopies(D.files[n], t)
  /\ D.files[n].vers[t] = -1 \/ D.ckind[n] = "dir" \/ F.kind[n] = "dir"

\* Dir::commit, `file.commit(txn_id)` on every file of the contents: the Dir
DirCommitFiles(D, t) ==
  LET C == {n \in CommittedFiles(D, t) : CommitCopies(D.files[n], t)} IN
  [D EXCEPT !.files = [n \in DOMAIN D.ckind |->
                         IF n \in CommittedFiles(D, t)
                           THEN FileCommitState(D.files[n], t) ELSE D.files[n]],
            !.ckind = [n \in DOMAIN D.ckind |-> IF n \in C THEN "file" ELSE @[n]],
            !.ccont = [n \in DOMAIN D.ckind |->
                         IF n \in C THEN D.files[n].vers[t] ELSE @[n]]]

\* ... and the host filesystem (each canonical file is synced)
FsCommitFiles(D, F, t) ==
  LET C == {n \in CommittedFiles(D, t) : CommitCopies(D.files[n], t)} IN
  [F EXCEPT !.kind = [n \in DOMAIN D.ckind |-> IF n \in C THEN "file" ELSE @[n]],
            !.cont = [n \in DOMAIN D.ckind |->
                        IF n \in C THEN D.files[n].vers[t] ELSE @[n]]]

\* Dir::commit, `if entry.is_none()`: the names deleted at txn_id
Deleted(D, t) == {n \in DOMAIN D.ckind : D.ent.delta[t][n] = "none"}

\* a commit that never syncs the canonical directory
NeedsSyncNever(D, t) == FALSE

\* Dir::commit, `needs_sync = needs_sync || entry.is_file()`
NeedsSync(D, t) == \E n \in Deleted(D, t) : D.ckind[n] = "file"

\* a commit that removes every canonical entry that is not in the contents
DirCommitAbsent(D, t) ==
  [D EXCEPT !.ckind = [n \in DOMAIN D.ckind |->
                         IF MapValue(D.ent, t, n) = "none" THEN "none" ELSE @[n]],
            !.ccont = [n \in DOMAIN D.ckind |->
                         IF MapValue(D.ent, t, n) = "none" THEN -1 ELSE @[n]]]

\* Dir::commit, `canon.delete(&*name).await`: the cache forgets the entry
DirCommitDeltas(D, t) ==
  [D EXCEPT !.ckind = [n \in DOMAIN D.ckind |->
                         IF n \in Deleted(D, t) THEN "none" ELSE @[n]],
            !.ccont = [n \in DOMAIN D.ckind |->
                         IF n \in Deleted(D, t) THEN -1 ELSE @[n]]]

\* a commit that leaves the canonical entries of the deleted names alone
DirCommitKeepsDeleted(D, t) == [D EXCEPT !.ent = MapCommit(D.ent, t)]

\* Dir::commit with recursive = false: the entries are committed and the
\* canonical entries of the names deleted at txn_id leave the cache
DirCommitShallow(D, t) ==
  DirCommitDeltas([D EXCEPT !.ent = MapCommit(D.ent, t)], t)

\* Dir::rollback, recursive: `file.rollback(txn_id)` on every file of the
\* snapshot
DirRollbackFiles(D, t) ==
  [D EXCEPT !.files = [n \in DOMAIN D.ckind |->
                         IF MapValue(D.ent, t, n) = "file"
                           THEN FileRollbackState(D.files[n], t) ELSE D.files[n]]]

\* deletions that are awaited: the names leave the directory
DeleteAwaited(dir, names) == [n \in DOMAIN dir |-> dir[n] /\ n \notin names]

\* Dir::finalize, `versions.delete(name.as_str());`, `canon.delete(&name);`,
\* `canon.delete(VERSIONS);`: the futures are dropped, not awaited
DeleteNotAwaited(dir, names) == dir

\* Dir::finalize, `to_delete`: the empty version directories of the names
\* that are not in the finalized contents
EmptyVersionDirs(D, names) ==
  {n \in DOMAIN D.vdir : /\ n \notin names /\ D.vdir[n]
                         /\ \A v \in Txns : D.files[n].vers[v] = -1}

\* Dir::finalize, `versions.is_empty()` after the deletions
VersionsIsEmpty(D, names) ==
  \A n \in DOMAIN D.vdir :
    ~DeleteNotAwaited(D.vdir, EmptyVersionDirs(D, names))[n]

\* Dir::finalize, `dir.is_empty()` of a canonical sub-directory: it holds the
\* .txfs that Dir::load created in it
SubDirIsEmpty == FALSE

\* Dir::finalize, `sync_canon`
SyncCanon(D, names) ==
  \/ \E n \in DOMAIN D.ckind : n \notin names /\ D.ckind[n] = "dir" /\ SubDirIsEmpty
  \/ VersionsIsEmpty(D, names)

\* Dir::create_dir, `canon.get_or_create_dir(name)?`: fails when the cache holds
\* a file of that name
GetOrCreateDirFails(D, n) == D.ckind[n] = "file"

\* Dir::create_dir: the cache directory Dir::load is called on
SubDirImage(D, S, n) ==
  IF D.ckind[n] = "dir" THEN CacheImage(S) ELSE EmptyImage(DOMAIN S.ckind)

\* Dir::create_dir fails after the reservation
CreateDirFails(D, S, n) ==
  GetOrCreateDirFails(D, n) \/ LoadFails(SubDirImage(D, S, n))

\* Dir::create_dir after the reservation: the parent Dir
CreateDirState(D, S, t, n) ==
  IF GetOrCreateDirFails(D, n) THEN D
  ELSE IF CreateDirFails(D, S, n) THEN [D EXCEPT !.ckind[n] = "dir"]
  ELSE [D EXCEPT !.ckind[n] = "dir", !.ent = MapInsert(D.ent, t, n, "dir")]

\* Dir::create_dir after the reservation: the new Dir
CreateDirSub(D, S, t, n) ==
  IF CreateDirFails(D, S, n) THEN S ELSE DirLoad(t, SubDirImage(D, S, n))

\* ------------------------------------------------------------------------
\* The directory specification: the root Dir, loaded at some txn from an
\* empty directory, from one that holds the file h or from one that holds the
\* directory d, with the file g or with the empty directory g, and callers that
\* create, delete, look up, write, commit, roll back and finalize.

\* a caller that is in no create_file / create_dir call
IdleCall == [phase |-> "idle", txn |-> 0, name |-> "", kind |-> "none", first |-> ""]

InitDir ==
  \E pre \in {"empty", "file", "dir", "nest"} :
    LET img == IF pre = "file"
                 THEN [EmptyImage(Names) EXCEPT !.kind["h"] = "file", !.cont["h"] = 0]
               ELSE IF pre \in {"dir", "nest"}
                 THEN [EmptyImage(Names) EXCEPT !.kind["d"] = "dir"]
               ELSE EmptyImage(Names)
        simg == IF pre = "dir"
                  THEN [EmptyImage(SubNames) EXCEPT !.kind["g"] = "file", !.cont["g"] = 0]
                ELSE IF pre = "nest"
                  THEN [EmptyImage(SubNames) EXCEPT !.kind["g"] = "dir"]
                ELSE EmptyImage(SubNames)
    IN  /\ root = DirLoad(1, img)
        /\ sub = IF pre \in {"dir", "nest"} THEN DirLoad(1, simg)
                ELSE NoDir(SubNames)
        /\ fs = [root |-> img, sub |-> simg]
        /\ calls = [k \in Callers |-> IdleCall]
        /\ panicked = FALSE
        /\ steps = 0
        /\ held = {}
        /\ loaded = 0 /\ lk = 0
        /\ file = 0 /\ rguards = 0 /\ wguards = 0 /\ wver = 0 /\ canon = 0
        /\ disk = 0 /\ last = 0 /\ live = 0 /\ wrote = 0 /\ committed = 0

\* a step of a caller: no call has panicked and the callers take at most
\* MaxSteps steps
Step == ~panicked /\ steps < MaxSteps /\ steps' = steps + 1

\* a caller holds the permit of a vacant entry (t, n): dir.rs:212 / 348,
\* `TxnMapEntry::Vacant(entry) => entry`, until `entry.insert` or its drop
EntryPermitHeld(t, n) ==
  \E k \in Callers :
    calls[k].phase = "holding" /\ calls[k].txn = t /\ calls[k].name = n

\* `self.entries.entry(txn_id, name).await` waits: for an earlier pending
\* write of the key or for the permit of the key at t
EntryWaits(t, n) ==
  /\ ~MapWriteRefused(root.ent, t, n)
  /\ MapPastWrite(root.ent, t, n) \/ EntryPermitHeld(t, n)

\* history: the creates of (t, n) that wait learn how the create they wait
\* for ended, or that another call changed the entry meanwhile
Tell(cs, t, n, what) ==
  [k \in Callers |->
     IF cs[k].phase = "waiting" /\ cs[k].txn = t /\ cs[k].name = n
       THEN [cs[k] EXCEPT !.first = IF @ = "" THEN what ELSE "disturbed"]
     ELSE cs[k]]

\* Dir::create_file (e = "file") / Dir::create_dir (e = "dir") of n at t, up to
\* the reservation; a call that finds the permit held by another caller waits
CreateEntry(k, t, n, e) ==
  /\ Step
  /\ \/ calls[k].phase = "idle" /\ \A j \in Callers : j < k => calls[j].phase # "idle"
     \/ calls[k] = [phase |-> "waiting", txn |-> t, name |-> n, kind |-> e,
                    first |-> calls[k].first]
  /\ ~MapPastWrite(root.ent, t, n)
  /\ IF EntryWaits(t, n)
       THEN /\ calls[k].phase = "idle"
            /\ calls' = [calls EXCEPT ![k] = [phase |-> "waiting", txn |-> t,
                                             name |-> n, kind |-> e, first |-> ""]]
            /\ root' = root
     ELSE IF MapWriteRefused(root.ent, t, n)
       THEN /\ calls' = [calls EXCEPT ![k] = IdleCall]
            /\ root' = root
     ELSE IF MapValue(root.ent, t, n) # "none"
       THEN /\ calls' = [calls EXCEPT ![k] = IdleCall]
            /\ root' = [root EXCEPT !.ent = MapReserve(root.ent, t, n)]
     ELSE /\ calls' = [calls EXCEPT ![k] = [phase |-> "holding", txn |-> t,
                                           name |-> n, kind |-> e, first |-> ""]]
          /\ root' = [root EXCEPT !.ent = MapReserve(root.ent, t, n)]
  /\ UNCHANGED <<sub, fs, panicked, held, fvars>>

\* Dir::create_file up to `File::create(..).await`: the version directory
\* .txfs/<name> is got or created
CreateObtain(k) ==
  /\ Step
  /\ calls[k].phase = "holding" /\ calls[k].kind = "file" /\ calls[k].first = ""
  /\ root' = [root EXCEPT !.vdir[calls[k].name] = TRUE]
  /\ calls' = [calls EXCEPT ![k].first = "obtained"]
  /\ UNCHANGED <<sub, fs, panicked, held, fvars>>

\* Dir::create_file / Dir::create_dir from the reservation to the return
CreateInsert(k) ==
  LET t == calls[k].txn
      n == calls[k].name
      fails == IF calls[k].kind = "file" THEN CreateFileFails(root, t, n)
               ELSE CreateDirFails(root, sub, n)
  IN  /\ Step
      /\ calls[k].phase = "holding"
      /\ root' = IF calls[k].kind = "file" THEN CreateFileState(root, t, n)
                 ELSE CreateDirState(root, sub, t, n)
      /\ sub' = IF calls[k].kind = "file" THEN sub
                ELSE CreateDirSub(root, sub, t, n)
      /\ calls' = [Tell(calls, t, n, IF fails THEN "failed" ELSE "ok")
                     EXCEPT ![k] = IdleCall]
      /\ UNCHANGED <<fs, panicked, held, fvars>>

\* Dir::create_file / Dir::create_dir fails after the reservation
CreateFails(k) ==
  IF calls[k].kind = "file" THEN CreateFileFails(root, calls[k].txn, calls[k].name)
  ELSE CreateDirFails(root, sub, calls[k].name)

\* Dir::create_file / Dir::create_dir is cancelled while it holds the permit:
\* the future is dropped at one of its awaits, before (`reached` false) or
\* after `get_or_create_dir`, and the permit with it
CancelCreate(k, reached) ==
  LET n == calls[k].name IN
  /\ Step
  /\ calls[k].phase = "holding"
  /\ root' = IF ~reached THEN root
             ELSE IF calls[k].kind = "file" THEN [root EXCEPT !.vdir[n] = TRUE]
             ELSE IF GetOrCreateDirFails(root, n) THEN root
             ELSE [root EXCEPT !.ckind[n] = "dir"]
  /\ calls' = [Tell(calls, calls[k].txn, n, "disturbed") EXCEPT ![k] = IdleCall]
  /\ UNCHANGED <<sub, fs, panicked, held, fvars>>

\* a caller holds an entry permit at t
PermitHeldAt(t) ==
  \E k \in Callers : calls[k].phase = "holding" /\ calls[k].txn = t

\* Dir::delete waits: for the key in the entries, or in Dir::truncate for the
\* entries of the sub-directory
DeleteWaits(t, n) ==
  /\ ~MapWriteRefused(root.ent, t, n)
  /\ \/ MapPastWrite(root.ent, t, n)
     \/ EntryPermitHeld(t, n)
     \/ /\ MapValue(root.ent, t, n) = "dir"
        /\ ~MapClearRefused(sub.ent, t)
        /\ MapAnyPastWrite(sub.ent, t)

\* Dir::delete (and Dir::truncate of a deleted sub-directory)
Delete(t, n) ==
  LET e == MapValue(root.ent, t, n)
      refused == MapWriteRefused(root.ent, t, n)
      cleared == e = "dir" /\ ~MapClearRefused(sub.ent, t)
  IN  /\ Step
      /\ ~DeleteWaits(t, n)
      /\ root' = IF refused THEN root
                 ELSE [root EXCEPT !.ent = MapRemove(root.ent, t, n)]
      /\ sub' = IF ~refused /\ cleared
                  THEN [sub EXCEPT !.ent = MapClear(sub.ent, t)] ELSE sub
      /\ calls' = IF refused THEN calls ELSE Tell(calls, t, n, "disturbed")
      /\ UNCHANGED <<fs, panicked, held, fvars>>

\* a read of the entry of n at t waits
LookupWaits(t, n) ==
  /\ ~MapReadRefused(root.ent, t)
  /\ MapPastWrite(root.ent, t, n) \/ EntryPermitHeld(t, n)

\* Dir::contains
Contains(t, n) ==
  /\ Step
  /\ ~LookupWaits(t, n)
  /\ root' = IF MapReadRefused(root.ent, t) THEN root
             ELSE [root EXCEPT !.ent = MapRead(root.ent, t, n)]
  /\ UNCHANGED <<sub, fs, calls, panicked, held, fvars>>

\* a caller holds a FileVersionWrite at t on the file n of the root
GuardHeld(t, n) == [txn |-> t, name |-> n] \in held

\* Dir::write_file and a change of the contents through the guard, which the
\* caller keeps
WriteFile(t, n) ==
  LET e == MapValue(root.ent, t, n)
      f == root.files[n]
      refused == MapReadRefused(root.ent, t)
      r == FileWriteResult(f, t)
      w == FileWriteState(f, t)
      got == ~refused /\ e = "file" /\ r = "ok"
  IN  /\ Step
      /\ ~LookupWaits(t, n)
      /\ (~refused /\ e = "file")
           => ~(~LockWriteRefused(f, t) /\ (PastWrite(f.lm, t) \/ GuardHeld(t, n)))
      /\ root' = IF refused THEN root
                 ELSE IF e # "file"
                   THEN [root EXCEPT !.ent = MapRead(root.ent, t, n)]
                 ELSE [root EXCEPT
                         !.ent = MapRead(root.ent, t, n),
                         !.files[n] =
                            IF r = "ok"
                              THEN [w EXCEPT
                                      !.vers[WriteGuardVersion(LockValue(f.lm, t), t)] = t]
                              ELSE w]
      /\ held' = IF got THEN held \cup {[txn |-> t, name |-> n]} ELSE held
      /\ UNCHANGED <<sub, fs, calls, panicked, fvars>>

\* a FileVersionWrite on a file of the root is dropped
DropGuard(g) ==
  /\ Step
  /\ g \in held
  /\ held' = held \ {g}
  /\ UNCHANGED <<root, sub, fs, calls, panicked, fvars>>

\* a try_get that never finds it has to wait
TryGetNeverBlocks(t, n) == FALSE

\* `self.entries.try_get(txn_id, name)` would have to wait: WouldBlock
TryGetWouldBlock(t, n) == MapPastWrite(root.ent, t, n) \/ EntryPermitHeld(t, n)

\* what Dir::try_get_file(t, n) returns: the error kind, "none" for Ok(None)
\* or "file" for the file; a directory entry is InvalidData, of kind IO
TryGetFileResult(t, n) ==
  IF MapReadRefused(root.ent, t) \/ TryGetWouldBlock(t, n) THEN "Conflict"
  ELSE LET e == MapValue(root.ent, t, n)
       IN  IF e = "dir" THEN "IO" ELSE e

\* Dir::try_get_file: a lookup that is not refused reserves the key at t
TryGetFile(t, n) ==
  /\ Step
  /\ root' = IF TryGetFileResult(t, n) = "Conflict" THEN root
             ELSE [root EXCEPT !.ent = MapRead(root.ent, t, n)]
  /\ UNCHANGED <<sub, fs, calls, panicked, held, fvars>>

\* Dir::create_file of g in the sub-directory root/d
SubCreateFile(t) ==
  LET refused == MapWriteRefused(sub.ent, t, "g")
      occupied == MapValue(sub.ent, t, "g") # "none"
      reserved == [sub EXCEPT !.ent = MapReserve(sub.ent, t, "g")]
  IN  /\ Step
      /\ root.ckind["d"] = "dir" /\ MapValue(root.ent, t, "d") = "dir"
      /\ ~(~refused /\ MapPastWrite(sub.ent, t, "g"))
      /\ sub' = IF refused THEN sub
                ELSE IF occupied THEN reserved
                ELSE CreateFileState(reserved, t, "g")
      /\ UNCHANGED <<root, fs, calls, panicked, held, fvars>>

\* File::commit / File::rollback of a file of D waits for an earlier writer
FilesWait(D, t) ==
  \E n \in CommittedFiles(D, t) : PastWrite(D.files[n].lm, t)

\* File::commit / File::rollback of a file of the root waits for the write
\* guard a caller holds at t
GuardsWait(D, t) == \E n \in CommittedFiles(D, t) : GuardHeld(t, n)

\* Dir::commit
DirCommit(t, recursive) ==
  LET r1 == [root EXCEPT !.ent = MapCommit(root.ent, t)]
      hasSub == recursive /\ MapValue(r1.ent, t, "d") = "dir"
      s1 == [sub EXCEPT !.ent = MapCommit(sub.ent, t)]
      panics ==
        /\ recursive
        /\ \/ \E n \in CommittedFiles(r1, t) : FileCommitPanics(r1, fs.root, t, n)
           \/ /\ hasSub
              /\ \E n \in CommittedFiles(s1, t) : FileCommitPanics(s1, fs.sub, t, n)
      s2 == DirCommitFiles(s1, t)
      s3 == DirCommitDeltas(s2, t)
      subTouched ==
        \/ \E n \in CommittedFiles(s1, t) : CommitCopies(s1.files[n], t)
        \/ NeedsSync(s2, t)
      sf == IF NeedsSync(s2, t) THEN CacheImage(s3)
            ELSE FsCommitFiles(s1, fs.sub, t)
      r2 == IF recursive THEN DirCommitFiles(r1, t) ELSE r1
      f2 == IF recursive THEN FsCommitFiles(r1, fs.root, t) ELSE fs.root
      f3 == IF hasSub /\ subTouched THEN [f2 EXCEPT !.kind["d"] = "dir"] ELSE f2
      r3 == DirCommitDeltas(r2, t)
      subGone == "d" \in Deleted(r2, t) /\ r2.ckind["d"] = "dir"
      sNew == IF subGone THEN NoDir(SubNames) ELSE IF hasSub THEN s3 ELSE sub
  IN  /\ Step
      /\ ~root.ent.done[t] /\ root.ent.fin < t
      /\ ~MapAnyPastWrite(root.ent, t) /\ ~PermitHeldAt(t)
      /\ recursive => ~FilesWait(r1, t) /\ ~GuardsWait(r1, t)
      /\ hasSub => ~MapAnyPastWrite(sub.ent, t) /\ ~FilesWait(s1, t)
      /\ IF panics
           THEN /\ root' = r1
                /\ panicked' = TRUE
                /\ UNCHANGED <<sub, fs>>
           ELSE /\ root' = r3
                /\ sub' = sNew
                /\ fs' = IF NeedsSync(r2, t)
                           THEN [root |-> CacheImage(r3),
                                 sub  |-> IF r3.ckind["d"] = "dir"
                                            THEN CacheImage(sNew)
                                            ELSE EmptyImage(SubNames)]
                           ELSE [root |-> f3,
                                 sub  |-> IF hasSub THEN sf ELSE fs.sub]
                /\ panicked' = panicked
      /\ UNCHANGED <<calls, held, fvars>>

\* Dir::rollback
DirRollback(t, recursive) ==
  LET hasSub == recursive /\ MapValue(root.ent, t, "d") = "dir"
      r1 == IF recursive THEN DirRollbackFiles(root, t) ELSE root
  IN  /\ Step
      /\ ~root.ent.done[t] /\ root.ent.fin < t
      /\ ~MapAnyPastWrite(root.ent, t) /\ ~PermitHeldAt(t)
      /\ recursive => ~FilesWait(root, t) /\ ~GuardsWait(root, t)
      /\ hasSub => ~MapAnyPastWrite(sub.ent, t) /\ ~FilesWait(sub, t)
      /\ root' = [r1 EXCEPT !.ent = MapRollback(root.ent, t)]
      /\ sub' = IF hasSub
                  THEN [DirRollbackFiles(sub, t) EXCEPT
                          !.ent = MapRollback(sub.ent, t)]
                  ELSE sub
      /\ calls' = [k \in Callers |->
                     IF calls[k].phase = "waiting" /\ calls[k].txn = t
                       THEN [calls[k] EXCEPT !.first = "disturbed"]
                     ELSE calls[k]]
      /\ UNCHANGED <<fs, panicked, held, fvars>>

\* a transaction at or before t is live in the entries of D
Live(D, t) ==
  \E p \in Txns, n \in DOMAIN D.ckind :
    /\ p <= t /\ ~D.ent.done[p]
    /\ D.ent.res[p][n] # "none" \/ D.ent.delta[p][n] # "same"

\* Dir::finalize, called when no transaction at or before t is live
\* (history: a create_file that has got its version directory learns that a
\* finalize ran meanwhile)
DirFinalize(t) ==
  LET r1 == [root EXCEPT !.ent = MapFinalize(root.ent, t)]
      names == {n \in Names : r1.ent.canon[n] # "none"}
      r2 == [r1 EXCEPT !.vdir =
                         DeleteNotAwaited(r1.vdir, EmptyVersionDirs(r1, names))]
  IN  /\ Step
      /\ root.ent.fin < t
      /\ ~Live(root, t)
      /\ \A k \in Callers : calls[k].phase # "idle" => calls[k].txn > t
      /\ root' = r2
      /\ fs' = IF SyncCanon(r1, names)
                 THEN [root |-> CacheImage(r2),
                       sub  |-> IF r2.ckind["d"] = "dir" THEN CacheImage(sub)
                                ELSE EmptyImage(SubNames)]
                 ELSE fs
      /\ calls' = [k \in Callers |->
                     IF calls[k].phase = "holding" /\ calls[k].first = "obtained"
                       THEN [calls[k] EXCEPT !.first = "finalized"]
                     ELSE calls[k]]
      /\ UNCHANGED <<sub, panicked, held, fvars>>

\* File::finalize of the file n of the root, called when no transaction at or
\* before t is live on the file
FileFinalize(t, n) ==
  /\ Step
  /\ HasFile(root, n) /\ root.files[n].lm.fin < t
  /\ \A p \in Txns : p <= t =>
       root.files[n].lm.res[p] = "none" /\ root.files[n].lm.pend[p] = 0
  /\ root' = [root EXCEPT !.files[n] = FileFinalizeState(root.files[n], t)]
  /\ UNCHANGED <<sub, fs, calls, panicked, held, fvars>>

NextDir ==
  \/ \E k \in Callers, t \in Txns, n \in Names, e \in {"file", "dir"} :
       (e = "dir" => n = "d") /\ CreateEntry(k, t, n, e)
  \/ \E k \in Callers : CreateObtain(k)
  \/ \E k \in Callers : CreateInsert(k)
  \/ \E k \in Callers, reached \in BOOLEAN : CancelCreate(k, reached)
  \/ \E t \in Txns, n \in Names : Delete(t, n)
  \/ \E t \in Txns, n \in Names : Contains(t, n)
  \/ \E t \in Txns, n \in Names : WriteFile(t, n)
  \/ \E g \in held : DropGuard(g)
  \/ \E t \in Txns, n \in Names : TryGetFile(t, n)
  \/ \E t \in Txns : SubCreateFile(t)
  \/ \E t \in Txns, recursive \in BOOLEAN : DirCommit(t, recursive)
  \/ \E t \in Txns, recursive \in BOOLEAN : DirRollback(t, recursive)
  \/ \E t \in Txns : DirFinalize(t)
  \/ \E t \in Txns, n \in Names : FileFinalize(t, n)

SpecDir == InitDir /\ [][NextDir]_vars

\* ------------------------------------------------------------------------
\* Properties of the directory specification

\* caller k holds the permit of (t, n) while caller j, in a create of the same
\* (t, n), waits for it
Racing(k, j) ==
  /\ calls[k].phase = "holding" /\ calls[j].phase = "waiting"
  /\ calls[j].txn = calls[k].txn /\ calls[j].name = calls[k].name

\* the permits held and the entry visible at (t, n)
EntriesAt(t, n) ==
  Cardinality({k \in Callers : calls[k].phase = "holding" /\ calls[k].txn = t
                               /\ calls[k].name = n})
    + (IF MapValue(root.ent, t, n) # "none" THEN 1 ELSE 0)

\* C5: of two creates of n at t that run concurrently exactly one succeeds and
\* the other reports AlreadyExists: the entries never hold more than one
\* entry at (t, n), a pending reservation counted; the create that holds the
\* reservation while the other waits inserts its entry; and the create that
\* waited returns the error of an occupied entry, leaving the entries as
\* they are.
C5_RacingCreates ==
  /\ [](\A t \in Txns, n \in Names : EntriesAt(t, n) <= 1)
  /\ [][\A k, j \in Callers :
          (Racing(k, j) /\ CreateInsert(k))
            => MapValue(root'.ent, calls[k].txn, calls[k].name) = calls[k].kind]_vars
  /\ [][\A j \in Callers :
          (/\ calls[j].phase = "waiting" /\ calls[j].first \in {"ok", "failed"}
           /\ CreateEntry(j, calls[j].txn, calls[j].name, calls[j].kind))
            => /\ calls'[j] = IdleCall
               /\ root'.ent.delta = root.ent.delta]_vars

\* a canonical file of n exists and n is deleted at t
FileDeletedAt(t, n) ==
  /\ root.ent.delta[t][n] = "none"
  /\ root.ckind[n] = "file" \/ fs.root.kind[n] = "file"

\* C7: when commit(t, recursive = true) returns, the canonical file of every
\* file entry deleted at t is gone from the host filesystem and from the
\* canonical directory Dir::load reads, so that a later load does not contain
\* the name.
C7_DeleteDurability ==
  [][\A t \in Txns :
       (DirCommit(t, TRUE) /\ ~panicked')
         => \A n \in Names :
              FileDeletedAt(t, n)
                => fs'.root.kind[n] = "none" /\ root'.ckind[n] = "none"]_vars

\* a commit has deleted a file whose canonical copy was on the disk, and the
\* sync of the canonical directory has removed it
C7_Witness ==
  \E t \in Txns, n \in Names :
    /\ root.ent.done[t] /\ root.ent.delta[t][n] = "none"
    /\ HasFile(root, n) /\ root.files[n].vers[1] # -1
    /\ fs.root.txfs /\ fs.root.kind[n] = "none" /\ root.ckind[n] = "none"

\* the directory d with its file g is committed and on the host filesystem,
\* and d is deleted at t
DirDeletedAt(t) ==
  /\ root.ent.delta[t]["d"] = "none"
  /\ \E c \in Txns : c < t /\ root.ent.done[c] /\ root.ent.delta[c]["d"] = "dir"
  /\ \E c \in Txns : c < t /\ sub.ent.done[c] /\ sub.ent.delta[c]["g"] = "file"
  /\ root.ckind["d"] = "dir"
  /\ fs.root.kind["d"] = "dir" /\ fs.sub.kind["g"] = "file"

\* C8: with the directory d and its file g committed, after delete(t, d) and
\* commit(t, recursive = true) a later transaction does not see d, neither d/
\* nor d/g remains on the host filesystem when commit returns, and a later
\* create_dir of d succeeds.
C8_RecursiveDirDelete ==
  [][\A t \in Txns :
       (DirCommit(t, TRUE) /\ ~panicked' /\ DirDeletedAt(t))
         => /\ \A u \in Txns :
                 (u > t /\ root'.ent.delta[u]["d"] = "same")
                   => MapValue(root'.ent, u, "d") = "none"
            /\ fs'.root.kind["d"] = "none"
            /\ fs'.sub.kind["g"] = "none"
            /\ ~CreateDirFails(root', sub', "d")]_vars

\* the .txfs of a directory image holds no version file at or before t, no
\* empty per-file version directory, and is absent when empty
TxfsClean(img, t) ==
  /\ \A n \in DOMAIN img.kind, v \in Txns : v <= t => img.vers[n][v] = -1
  /\ \A n \in DOMAIN img.kind :
       img.vdir[n] => \E v \in Txns : img.vers[n][v] # -1
  /\ img.txfs => \E n \in DOMAIN img.kind : img.vdir[n]

\* C9: after finalize(t) on a directory with no live transaction at or before
\* t, its .txfs on the host filesystem holds no version file of a txn <= t,
\* no empty per-file version directory, and is absent when it became empty.
C9_FinalizeCompleteness ==
  [][\A t \in Txns : DirFinalize(t) => TxfsClean(fs'.root, t)]_vars

\* the file n of the root was created by a transaction committed before t
CommittedBefore(t, n) ==
  \E c \in Txns : c < t /\ root.ent.done[c] /\ root.ent.delta[c][n] = "file"

\* C11 (past write blocks future read): while a write guard at t is held on a
\* file n that was created and committed before t, try_get_file(t2, n) at
\* every later t2 fails with Conflict.
C11_PastWriteBlocksFutureRead ==
  \A t \in Txns, t2 \in Txns, n \in Names :
    (t < t2 /\ CommittedBefore(t, n) /\ GuardHeld(t, n))
      => TryGetFileResult(t2, n) = "Conflict"

\* the insertion of the file n at t is not committed
PendingCreate(t, n) == root.ent.delta[t][n] = "file" /\ ~root.ent.done[t]

\* nothing but t stands between a lookup of n at t2 and the entry t inserted
OnlyPending(t, t2, n) ==
  /\ root.ent.fin <= t2
  /\ \A p \in Txns \ {t} :
       p <= t2 => root.ent.delta[p][n] = "same" /\ root.ent.res[p][n] # "write"

\* C12 (non-blocking lookup under a pending create): while the insertion of
\* the file n at t is uncommitted, try_get_file(t2, n) at every t2 > t is a
\* Conflict; and the commit of t, when nothing else stands in the way, makes
\* the same call return the file.
C12_PendingCreateLookup ==
  /\ [](\A t \in Txns, t2 \in Txns, n \in Names :
          (t < t2 /\ PendingCreate(t, n)) => TryGetFileResult(t2, n) = "Conflict")
  /\ [][\A t \in Txns, t2 \in Txns, n \in Names :
          (/\ t < t2 /\ PendingCreate(t, n) /\ OnlyPending(t, t2, n)
           /\ \E r \in BOOLEAN : DirCommit(t, r)
           /\ ~panicked')
            => (TryGetFileResult(t2, n) = "Conflict"
                  /\ (TryGetFileResult(t2, n))' = "file")]_vars

\* create_file(t, n) inserted n, a try_get_file at a later txn was refused,
\* t is committed and the same lookup now returns the file
C12_Witness ==
  \E t \in Txns, t2 \in Txns, n \in Names :
    /\ t < t2
    /\ root.ent.done[t] /\ root.ent.delta[t][n] = "file"
    /\ root.ent.res[t2][n] = "read"
    /\ TryGetFileResult(t2, n) = "file"


\* C13 (idempotence): a File::commit(t) of a transaction that is committed, a
\* File::rollback(t) of one that is rolled back and a File::finalize(t) at the
\* finalized txn return and leave the lock, the version files and the
\* canonical file as they are.
C13_Idempotence ==
  /\ [][\A t \in Txns :
          (t \in committed /\ Commit(t))
            => /\ last'.res = "ok"
               /\ file' = file /\ canon' = canon /\ disk' = disk]_vars
  /\ [][\A t \in Txns :
          (t \notin live /\ t \notin committed /\ Rollback(t))
            => file' = file /\ canon' = canon /\ disk' = disk]_vars
  /\ [][\A t \in Txns :
          (file.lm.fin = t /\ Finalize(t))
            => file' = file /\ canon' = canon /\ disk' = disk]_vars

\* the depth-first sequence at t from the present state: File::commit on the
\* files of root/d, commit(d, false), File::commit on the files of the root,
\* commit(root, false); the root, the sub-directory, the host filesystem and
\* whether a File::commit panicked
CommitDepthFirst(t) ==
  LET hasSub == MapValue(root.ent, t, "d") = "dir"
      sa == DirCommitFiles(sub, t)
      sb == DirCommitShallow(sa, t)
      subTouched ==
        \/ \E n \in CommittedFiles(sub, t) : CommitCopies(sub.files[n], t)
        \/ NeedsSync(sa, t)
      sf == IF NeedsSync(sa, t) THEN CacheImage(sb)
            ELSE FsCommitFiles(sub, fs.sub, t)
      ra == DirCommitFiles(root, t)
      fa == FsCommitFiles(root, fs.root, t)
      fb == IF hasSub /\ subTouched THEN [fa EXCEPT !.kind["d"] = "dir"] ELSE fa
      rb == DirCommitShallow(ra, t)
      subGone == "d" \in Deleted(ra, t) /\ ra.ckind["d"] = "dir"
      sNew == IF subGone THEN NoDir(SubNames) ELSE IF hasSub THEN sb ELSE sub
  IN  [root |-> rb,
       sub  |-> sNew,
       fs   |-> IF NeedsSync(ra, t)
                  THEN [root |-> CacheImage(rb),
                        sub  |-> IF rb.ckind["d"] = "dir" THEN CacheImage(sNew)
                                 ELSE EmptyImage(SubNames)]
                  ELSE [root |-> fb, sub |-> IF hasSub THEN sf ELSE fs.sub],
       panics |->
         \/ \E n \in CommittedFiles(root, t) : FileCommitPanics(root, fs.root, t, n)
         \/ /\ hasSub
            /\ \E n \in CommittedFiles(sub, t) : FileCommitPanics(sub, fs.sub, t, n)]

C15_StructuralParity ==
  [][\A t \in Txns :
       (/\ DirCommit(t, TRUE) /\ ~panicked'
        /\ \A p \in Txns : p > t => ~root'.ent.done[p] /\ ~sub'.ent.done[p])
         => /\ \A n \in Names :
                 CacheImage(root').kind[n] = MapValue(root'.ent, t, n)
            /\ MapValue(root'.ent, t, "d") = "dir"
                 => \A n \in SubNames :
                      CacheImage(sub').kind[n] = MapValue(sub'.ent, t, n)]_vars

\* C16 (canonical recency): whenever no File::commit is running and a writer
\* has been committed, the canonical file holds the contents of the version of
\* the largest committed writer, in whatever order the commits were called.
C16_CanonicalRecency ==
  (/\ CommittedWriters(MaxTxn) # {}
   /\ file.vers[LastCommittedWriter(MaxTxn)] # -1
   /\ last.res # "panic")
    => canon = file.vers[LastCommittedWriter(MaxTxn)]

\* the non-hidden canonical entries and the canonical file contents, in the
\* cache and in the host filesystem
CanonicalTree(r, s, f) ==
  <<r.ckind, r.ccont, s.ckind, s.ccont,
    f.root.kind, f.root.cont, f.sub.kind, f.sub.cont>>

\* C17 (no canonical mutation before commit): create_file, create_dir, write,
\* delete and rollback leave the non-hidden canonical entries and the
\* canonical file contents as they are.
C17_NoCanonicalMutation ==
  [][(\/ \E k \in Callers : CreateInsert(k)
      \/ \E t \in Txns, n \in Names : Delete(t, n) \/ WriteFile(t, n)
      \/ \E t \in Txns : SubCreateFile(t)
      \/ \E t \in Txns, recursive \in BOOLEAN : DirRollback(t, recursive))
       => CanonicalTree(root', sub', fs') = CanonicalTree(root, sub, fs)]_vars

\* t has read or written the file since the last finalize
TouchedSinceFinalize(t) == t > file.lm.fin /\ (t \in wrote \/ t \in live)

\* C18 (version coverage): in every state the versions directory holds the
\* version file named t exactly when t has read or written the file since the
\* last finalize.
C18_VersionCoverage ==
  \A t \in Txns : file.vers[t] # -1 <=> TouchedSinceFinalize(t)

\* C19 (last-modified monotonicity): the last_modified a read guard at t was
\* given is at most t; a write at t that succeeds found a last_modified of at
\* most t and leaves it, as seen at t, at t; and a commit lowers the committed
\* last_modified seen at no txn.
C19_LastModifiedMonotonicity ==
  /\ [](\A g \in rguards : g.ver <= g.txn)
  /\ [][\A t \in Txns :
          (Write(t) /\ last'.res = "ok")
            => LockValue(file.lm, t) <= t /\ LockValue(file'.lm, t) = t]_vars
  /\ [][\A t \in Txns, p \in Txns :
          Commit(t) => ReadCanon(file'.lm, p) >= ReadCanon(file.lm, p)]_vars

\* the file n of D was created or written at t
TouchedAt(D, t, n) ==
  /\ HasFile(D, n)
  /\ D.files[n].lm.pend[t] = t \/ D.files[n].lm.canon = t

\* File::rollback(t) has been through the file n of D: versions/<t> is gone
\* and nothing of t is left in last_modified for a later read to wait for or
\* to observe
RolledBackAt(D, t, n) ==
  /\ D.files[n].vers[t] = -1
  /\ D.files[n].lm.pend[t] = 0 /\ D.files[n].lm.res[t] = "none"

\* C20 (rollback erases the transaction's versions): when rollback(t, true) on
\* the root returns, every file of the root and of root/d that was created or
\* written at t has no version file named t and its last_modified holds
\* nothing of t, so that a read at a later txn returns what was committed
\* before t.
C20_RollbackErasesVersions ==
  [][\A t \in Txns :
       DirRollback(t, TRUE)
         => /\ \A n \in Names : TouchedAt(root, t, n) => RolledBackAt(root', t, n)
            /\ \A n \in SubNames : TouchedAt(sub, t, n) => RolledBackAt(sub', t, n)]_vars

\* C21 (a failed or cancelled create): when create_file or create_dir of n at
\* t fails after the reservation or is cancelled while it holds it, the permit
\* is released, n has no entry at t, a later create of n at t is neither
\* refused nor kept waiting at the entry, and nothing but a version directory
\* is left behind: the canonical entries and contents are as before.
C21_FailedCreate ==
  [][\A k \in Callers, t \in Txns, n \in Names :
       (/\ calls[k].phase = "holding" /\ calls[k].txn = t /\ calls[k].name = n
        /\ \/ CreateFails(k) /\ CreateInsert(k)
           \/ \E reached \in BOOLEAN : CancelCreate(k, reached))
         => /\ calls'[k] = IdleCall
            /\ MapValue(root'.ent, t, n) = "none"
            /\ (~MapWriteRefused(root.ent, t, n) /\ ~EntryWaits(t, n))'
            /\ root'.files = root.files
            /\ CanonicalTree(root', sub', fs') = CanonicalTree(root, sub, fs)]_vars

ModifiedAt(t) ==
  \/ file.lm.pend[t] = t
  \/ ~loaded /\ file.lm.canon = t /\ file.lm.fin < t

\* C23 (file commit effect): the first File::commit(t) returns; it leaves the
\* canonical file with the contents of versions/<t> when t created or wrote the
\* file and as it was when t did not; and it changes no version file.
C23_FileCommitEffect ==
  [][\A t \in Txns :
       (t \notin committed /\ Commit(t))
         => /\ last'.res = "ok"
            /\ file'.vers = file.vers
            /\ canon' = IF ModifiedAt(t) THEN file.vers[t] ELSE canon
            /\ disk' = IF ModifiedAt(t) THEN file.vers[t] ELSE disk]_vars

\* C24 (deltas-only disk mutation): the directory's own commit step,
\* commit(t, false), removes from the canonical directory the names deleted at
\* t, which are not in the contents at t, and no other; every other name keeps
\* its canonical entry and contents, and in the host filesystem it is left as
\* it was or brought to what the canonical directory held before the step.
C24_DeltasOnly ==
  [][\A t \in Txns :
       DirCommit(t, FALSE)
         => \A n \in Names :
              IF n \in Deleted(root, t)
                THEN /\ MapValue(root.ent, t, n) = "none"
                     /\ root'.ckind[n] = "none"
              ELSE /\ root'.ckind[n] = root.ckind[n]
                   /\ root'.ccont[n] = root.ccont[n]
                   /\ fs'.root.kind[n] \in {fs.root.kind[n], root.ckind[n]}
                   /\ fs'.root.cont[n] \in {fs.root.cont[n], root.ccont[n]}]_vars

\* a commit(t, false) has removed the canonical directory d, deleted at t, and
\* left the canonical file h, whose File it did not commit
C24_Witness ==
  \E t \in Txns :
    /\ root.ent.done[t] /\ root.ent.delta[t]["d"] = "none"
    /\ root.ckind["d"] = "none"
    /\ root.ckind["h"] = "file" /\ MapValue(root.ent, t, "h") = "file"
    /\ root.files["h"].lm.comm[t] = -1 /\ root.files["h"].lm.fin < t

\* the names of the entries finalized at t
FinalizedNames(t) == {n \in Names : MapFinalize(root.ent, t).canon[n] # "none"}

\* Dir::finalize(t) syncs the canonical directory
FinalizeSyncs(t) ==
  SyncCanon([root EXCEPT !.ent = MapFinalize(root.ent, t)], FinalizedNames(t))

\* C25 (finalize cleanup frame): Dir::finalize(t) removes a version directory
\* only when its name is not finalized and it holds no version, removes a
\* canonical entry only when it is a directory that is not finalized, and
\* syncs the canonical directory exactly when it has removed a canonical
\* entry.
C25_FinalizeFrame ==
  [][\A t \in Txns :
       DirFinalize(t)
         => /\ \A n \in Names :
                 /\ root'.vdir[n] # root.vdir[n]
                      => /\ n \notin FinalizedNames(t)
                         /\ \A v \in Txns : root.files[n].vers[v] = -1
                 /\ root'.ckind[n] # root.ckind[n]
                      => n \notin FinalizedNames(t) /\ root.ckind[n] = "dir"
            /\ FinalizeSyncs(t) <=> root'.ckind # root.ckind]_vars

\* C26 (version file of the writing transaction): in every state, at every
\* txn t that is not finalized and at which last_modified is t, versions/<t>
\* exists, and no call has panicked.
C26_VersionExists ==
  /\ \A t \in Txns :
       (t > file.lm.fin /\ LockValue(file.lm, t) = t) => file.vers[t] # -1
  /\ last.res # "panic"

\* C27 (a new directory is empty): whenever create_dir(t, n) succeeds, the
\* directory it returns has no entry at t.
C27_NewDirEmpty ==
  [][\A k \in Callers :
       (CreateInsert(k) /\ calls[k].kind = "dir" /\ ~CreateFails(k))
         => \A g \in SubNames : MapValue(sub'.ent, calls[k].txn, g) = "none"]_vars

\* a create_file that has got .txfs/<name> and has not returned
Obtained(k) ==
  calls[k].phase = "holding" /\ calls[k].first \in {"obtained", "finalized"}

MaxLockTxn == 2

\* the tasks of the lock specification
MaxTasks == 2

\* the operations the tasks of the lock specification start
MaxStarted == 2

LTxns == 1..MaxLockTxn

Tasks == 1..MaxTasks

Committers == (MaxTasks + 1)..(MaxTasks + MaxLockTxn)

Procs == Tasks \cup Committers

\* the txn a committer ends
CommitterTxn(c) == c - MaxTasks

\* `lock.read().await` / `lock.write().await`
Acq(l, m) == [a |-> "acq", l |-> l, m |-> m]

\* `lock.try_read()?`
Try(l, m) == [a |-> "try", l |-> l, m |-> m]

\* the guard on a lock is dropped
Rel(l) == [a |-> "rel", l |-> l, m |-> ""]

\* a call of the last_modified lock or of the entries lock; "drop": the
\* guards of a block or of an inner call are dropped at its end
Txn(a) == [a |-> a, l |-> "", m |-> ""]

\* File::read; the guard it returns keeps last_modified and the version file
FileReadSteps == <<Txn("lm.read"), Acq("vers", "R"), Acq("vfile", "R")>>

\* a File::write that locks the version directory before last_modified
FileWriteVersionsFirst ==
  <<Acq("vers", "W"), Txn("lm.write"), Acq("vfile", "R"), Rel("vfile"),
    Acq("vfile", "W")>>

\* File::write: last_modified, the version directory, the version that is
\* copied, the version the guard is on
FileWriteSteps ==
  <<Txn("lm.write"), Acq("vers", "W"), Acq("vfile", "R"), Rel("vfile"),
    Acq("vfile", "W")>>

\* File::commit
FileCommitSteps ==
  <<Txn("lm.commit"), Acq("vers", "R"), Acq("canon", "W"), Txn("drop")>>

\* File::rollback
FileRollbackSteps == <<Txn("lm.rollback"), Acq("vers", "W"), Txn("drop")>>

\* File::finalize
FileFinalizeSteps == <<Acq("vers", "W")>>

\* Dir::create_file and File::create
CreateFileSteps ==
  <<Txn("ent.entry"), Acq("txfs", "W"), Rel("txfs"), Acq("vers", "W")>>

\* Dir::load of the sub-directory
DirLoadSteps ==
  <<Acq("sub", "W"), Rel("sub"), Acq("subtxfs", "W"), Try("sub", "R")>>

\* Dir::create_dir
CreateDirSteps == <<Txn("ent.entry"), Acq("canon", "W")>> \o DirLoadSteps

\* Dir::delete
DeleteSteps == <<Txn("ent.remove")>>

\* Dir::commit, recursive
DirCommitSteps == <<Txn("ent.commit")>> \o FileCommitSteps \o <<Acq("canon", "W")>>

\* Dir::rollback, recursive
DirRollbackSteps == <<Txn("ent.rollback")>> \o FileRollbackSteps

\* Dir::finalize
DirFinalizeSteps ==
  <<Acq("txfs", "W"), Acq("vers", "R"), Txn("drop"), Acq("canon", "W"),
    Acq("sub", "R")>>

\* the operations a task runs
TaskOps ==
  {"read", "write", "file_finalize", "create_file", "create_dir", "delete",
   "finalize"}

\* the steps of an operation
StepsOf(op) ==
  CASE op = "read" -> FileReadSteps
    [] op = "write" -> FileWriteSteps
    [] op = "file_finalize" -> FileFinalizeSteps
    [] op = "create_file" -> CreateFileSteps
    [] op = "create_dir" -> CreateDirSteps
    [] op = "delete" -> DeleteSteps
    [] op = "commit" -> DirCommitSteps
    [] op = "rollback" -> DirRollbackSteps
    [] op = "finalize" -> DirFinalizeSteps
    [] OTHER -> <<>>

InitLocks ==
  /\ lk = [op |-> [p \in Procs |-> "none"], txn |-> [p \in Procs |-> 0],
           pc |-> [p \in Procs |-> 0],
           hold |-> {}, lmg |-> {}, permit |-> {},
           lmw |-> {}, entw |-> {}, done |-> {}, started |-> 0]
  /\ file = 0 /\ rguards = 0 /\ wguards = 0 /\ wver = 0 /\ canon = 0
  /\ disk = 0 /\ last = 0 /\ live = 0 /\ wrote = 0 /\ committed = 0
  /\ loaded = 0
  /\ root = 0 /\ sub = 0 /\ fs = 0 /\ calls = 0 /\ panicked = 0 /\ steps = 0
  /\ held = 0

\* p is in a call that has not returned
Active(p) == lk.pc[p] \in 1..Len(StepsOf(lk.op[p]))

\* the caller p holds the FileVersionRead / FileVersionWrite its call returned
HoldsGuard(p) == lk.pc[p] > Len(StepsOf(lk.op[p]))

\* the step p is at
Ins(p) == StepsOf(lk.op[p])[lk.pc[p]]

\* who keeps p from the lock l in mode m
LockHolders(l, m) ==
  {h.p : h \in {g \in lk.hold : g.l = l /\ (m = "W" \/ g.m = "W")}}

\* who holds a guard of one of the kinds on last_modified at t
GuardHolders(t, kinds) ==
  {g.p : g \in {h \in lk.lmg : h.txn = t /\ h.kind \in kinds}}

\* who holds the permit of the entry at t
PermitHolders(t) == {q.p : q \in {h \in lk.permit : h.txn = t}}

\* the committers of the txns before t that are pending in the set w
PastWriters(w, t) == {MaxTasks + u : u \in {v \in w : v < t}}

\* the call of p at a finished txn is refused
Refused(p) ==
  /\ Ins(p).a \in {"lm.read", "lm.write", "ent.entry", "ent.remove"}
  /\ lk.txn[p] \in lk.done

\* what p waits for at its step
WaitsOn(p) ==
  IF ~Active(p) THEN {}
  ELSE LET i == Ins(p)
           t == lk.txn[p]
       IN  IF Refused(p) THEN {}
           ELSE CASE i.a = "acq" -> LockHolders(i.l, i.m)
                  [] i.a = "lm.read" ->
                       PastWriters(lk.lmw, t) \cup GuardHolders(t, {"write"})
                  [] i.a = "lm.write" ->
                       PastWriters(lk.lmw, t) \cup GuardHolders(t, {"read", "write"})
                  [] i.a \in {"lm.commit", "lm.rollback"} ->
                       PastWriters(lk.lmw, t) \cup GuardHolders(t, {"write"})
                  [] i.a \in {"ent.entry", "ent.remove", "ent.commit", "ent.rollback"} ->
                       PastWriters(lk.entw, t) \cup PermitHolders(t)
                  [] OTHER -> {}

Blocked(p) == WaitsOn(p) # {}

\* the call of p returns: what it still holds is dropped
Exit(p) ==
  [lk EXCEPT !.op[p] = "none", !.txn[p] = 0, !.pc[p] = 0,
             !.hold = {h \in @ : h.p # p},
             !.lmg = {h \in @ : h.p # p},
             !.permit = {h \in @ : h.p # p}]

\* Dir::finalize / File::finalize at t: no txn at or before t is live
CanFinalize(t) ==
  /\ \A u \in LTxns : u <= t => u \in lk.done
  /\ \A p \in Procs : lk.pc[p] # 0 => lk.txn[p] > t

\* the txn t is pending: it has written, or a call or a guard is at it
Pending(t) ==
  \/ t \in lk.lmw \cup lk.entw
  \/ \E p \in Tasks : lk.pc[p] # 0 /\ lk.txn[p] = t

\* a task starts an operation, a committer ends its pending txn
LockStart(p, op, t) ==
  /\ lk.pc[p] = 0
  /\ IF p \in Tasks
       THEN /\ op \in TaskOps
            /\ lk.started < MaxStarted
            /\ IF op \in {"finalize", "file_finalize"} THEN CanFinalize(t)
               ELSE t \notin lk.done
       ELSE /\ op \in {"commit", "rollback"} /\ t = CommitterTxn(p)
            /\ t \notin lk.done /\ Pending(t)
  /\ lk' = [lk EXCEPT !.op[p] = op, !.txn[p] = t, !.pc[p] = 1,
                       !.started = IF p \in Tasks THEN @ + 1 ELSE @]
  /\ UNCHANGED ovars

\* the effect of the step of p on the locks
StepEffect(p) ==
  LET i == Ins(p)
      t == lk.txn[p]
  IN  CASE i.a \in {"acq", "try"} ->
             [lk EXCEPT !.hold = @ \cup {[p |-> p, l |-> i.l, m |-> i.m]}]
        [] i.a = "rel" -> [lk EXCEPT !.hold = {h \in @ : ~(h.p = p /\ h.l = i.l)}]
        [] i.a = "lm.read" ->
             [lk EXCEPT !.lmg = @ \cup {[p |-> p, kind |-> "read", txn |-> t]}]
        [] i.a = "lm.write" ->
             [lk EXCEPT !.lmg = @ \cup {[p |-> p, kind |-> "write", txn |-> t]},
                        !.lmw = @ \cup {t}]
        [] i.a \in {"lm.commit", "lm.rollback"} ->
             [lk EXCEPT !.lmg = @ \cup {[p |-> p, kind |-> "read", txn |-> t]},
                        !.lmw = @ \ {t}]
        [] i.a = "drop" -> [lk EXCEPT !.hold = {h \in @ : h.p # p},
                                      !.lmg = {h \in @ : h.p # p}]
        [] i.a = "ent.entry" ->
             [lk EXCEPT !.permit = @ \cup {[p |-> p, txn |-> t]},
                        !.entw = @ \cup {t}]
        [] i.a = "ent.remove" -> [lk EXCEPT !.entw = @ \cup {t}]
        [] i.a \in {"ent.commit", "ent.rollback"} ->
             [lk EXCEPT !.entw = @ \ {t}, !.done = @ \cup {t}]
        [] OTHER -> lk

\* p takes the step it is at; after the last step the call returns and
\* drops what it holds, a File::read / File::write but the guard it returns
LockStep(p) ==
  /\ Active(p)
  /\ ~Blocked(p)
  /\ LET i == Ins(p)
         e == StepEffect(p)
         n == Len(StepsOf(lk.op[p]))
     IN  lk' = IF Refused(p) \/ (i.a = "try" /\ LockHolders(i.l, i.m) # {})
                 THEN Exit(p)
               ELSE IF lk.pc[p] < n THEN [e EXCEPT !.pc[p] = @ + 1]
               ELSE IF lk.op[p] \in {"read", "write"}
                 THEN [e EXCEPT !.pc[p] = @ + 1,
                                !.hold = {h \in @ : h.p # p \/ h.l = "vfile"}]
               ELSE [e EXCEPT !.op[p] = "none", !.txn[p] = 0, !.pc[p] = 0,
                              !.hold = {h \in @ : h.p # p},
                              !.lmg = {h \in @ : h.p # p},
                              !.permit = {h \in @ : h.p # p}]
  /\ UNCHANGED ovars

\* the caller drops the guard
LockDrop(p) ==
  /\ HoldsGuard(p)
  /\ lk' = Exit(p)
  /\ UNCHANGED ovars

NextLocks ==
  \/ \E p \in Procs, op \in TaskOps \cup {"commit", "rollback"}, t \in LTxns :
       LockStart(p, op, t)
  \/ \E p \in Procs : LockStep(p)
  \/ \E p \in Procs : LockDrop(p)

SpecLocks == InitLocks /\ [][NextLocks]_vars

\* the locks are handed over fairly, every guard a caller holds is dropped
\* and every txn is committed or rolled back
FairLocks ==
  /\ \A p \in Procs : SF_vars(LockStep(p))
  /\ \A p \in Tasks : WF_vars(LockDrop(p))
  /\ \A c \in Committers :
       WF_vars(\E op \in {"commit", "rollback"} : LockStart(c, op, CommitterTxn(c)))

SpecLocksFair == SpecLocks /\ FairLocks

\* the tasks p waits for, directly or through the tasks those wait for
RECURSIVE WaitChain(_, _)
WaitChain(S, n) ==
  IF n = 0 THEN S
  ELSE WaitChain(S \cup UNION {WaitsOn(q) : q \in S}, n - 1)

\* C29 (deadlock freedom): no task waits, directly or through other tasks,
\* for itself, and when the guards are dropped and the txns are ended every
\* call that has started returns.
C29_DeadlockFreedom ==
  /\ [](\A p \in Procs : p \notin WaitChain(WaitsOn(p), MaxTasks + MaxLockTxn))
  /\ \A p \in Procs : Active(p) ~> ~Active(p)

\* a task waits for a cache lock that a task holds which itself waits
C29_Witness ==
  \E p \in Procs, q \in Procs :
    /\ p # q /\ Active(p) /\ Ins(p).a = "acq" /\ q \in WaitsOn(p)
    /\ Blocked(q)

====
